---- MODULE Spec2Model ----
(***************************************************************************)
(* Content.py: the SimplyHired crawler as a state machine.                 *)
(*                                                                         *)
(* One run of the script: the output path is resolved, crawl() loads the   *)
(* search page, discovers and applies filters, paginates and accumulates   *)
(* deduplicated job records, and the try/finally exports them.  SIGINT is  *)
(* handled by handle_exit, which exports and raises SystemExit at the      *)
(* point the main thread had reached.                                      *)
(*                                                                         *)
(* Text is a sequence of one-character strings, so that lower(), the       *)
(* removal of spaces and the substring test are computed, not assumed.     *)
(* A path is the number k of "name_k.ext"; 1 stands for the base path.     *)
(***************************************************************************)
EXTENDS Integers, Sequences, FiniteSets, TLC

VARIABLES
    pc,               \* position of the main thread
    phase,            \* which terminal-state check is running: "init", "filter", "page"
    existing,         \* paths that exist on disk before the run
    OUTPUT_FILE,      \* line 60 (0: not resolved yet)
    MAX_PAGES,        \* line 43: args.pages
    jobs,             \* the global accumulator
    fingerprints,     \* crawl(): fingerprints
    current_page,     \* crawl(): current_page
    cardsLeft,        \* cards of the current page not yet visited by the for loop
    selected_filters, \* crawl(): selected_filters (a dict: a function on its keys)
    li,               \* index in FILTER_LABELS of the label being processed
    options,          \* crawl(): options of the label being processed
    applied,          \* history: return value of select_filter_option per label
    sfo,              \* frame of the select_filter_option call that just returned
    sigCount,         \* history: SIGINTs delivered
    pending,          \* exception in flight when the finally block runs
    crawlOutcome,     \* "running", "returned", "raised"
    exitStatus,       \* -1 while running, then the process exit status
    file,             \* content of OUTPUT_FILE as written by this run
    exportCalls,      \* history: invocations of export_csv
    writtenPaths,     \* history: paths opened for writing by this run
    terminalAt,       \* history: the phase in which a terminal-state check returned True
    crawledPages,     \* history: current_page at the start of each loop body
    sigJobs,          \* history: len(jobs) at the first SIGINT inside crawl() (-1: none)
    success,          \* crawl(): success, "True" or "False" ("none": unassigned)
    lastCard,         \* history: what the for loop did with the last card it visited
    errorAt,          \* history: position at which an error left crawl()
    pageSince         \* history: what ran since the last state-changing page action

vars == <<pc, phase, existing, OUTPUT_FILE, MAX_PAGES, jobs, fingerprints, current_page,
          cardsLeft, selected_filters, li, options, applied, sfo, sigCount, pending,
          crawlOutcome, exitStatus, file, exportCalls, writtenPaths, terminalAt,
          crawledPages, sigJobs, success, lastCard, errorAt,
          pageSince>>

(***************************************************************************)
(* Bounds of the model.                                                    *)
(***************************************************************************)
MaxPagesArg == 2     \* --pages is drawn from 0..MaxPagesArg
MaxCards == 2        \* result cards on one page
MaxOpts == 2         \* options listed in one dropdown
MaxExisting == 2     \* prior output files name.ext, name_2.ext, ...
MaxSignals == 1      \* SIGINTs delivered during one run
MaxChosen == 2       \* labels for which the user answers "y"

(***************************************************************************)
(* Text.                                                                   *)
(***************************************************************************)
LowerChar(c) ==
    CASE c = "A" -> "a" [] c = "B" -> "b" [] c = "C" -> "c" [] c = "D" -> "d"
      [] c = "E" -> "e" [] c = "N" -> "n" [] c = "O" -> "o" [] c = "X" -> "x"
      [] OTHER -> c

\* str.lower()
Lower(s) == [i \in 1..Len(s) |-> LowerChar(s[i])]

\* str.replace(" ", "")
RemoveSpaces(s) == SelectSeq(s, LAMBDA c : c # " ")

\* needle in hay
Contains(needle, hay) ==
    \E i \in 0..(Len(hay) - Len(needle)) : SubSeq(hay, i + 1, i + Len(needle)) = needle

NA == <<"N", "/", "A">>
NoEl == <<"<none>">>   \* query_selector returned None

(***************************************************************************)
(* Line 11: FILTER_LABELS.                                                 *)
(***************************************************************************)
FILTER_LABELS == <<"Distance", "Job Type", "Minimum Salary", "Date added">>

\* dict.get(key, default)
Get(d, k, default) == IF k \in DOMAIN d THEN d[k] ELSE default

\* d[key] = value
Put(d, k, v) == [x \in (DOMAIN d) \cup {k} |-> IF x = k THEN v ELSE d[x]]

EmptyDict == [x \in {} |-> <<>>]

(***************************************************************************)
(* Lines 20-31: get_unique_output_path.                                    *)
(***************************************************************************)
RECURSIVE NextFree(_, _)
NextFree(ex, counter) ==
    IF counter \notin ex THEN counter ELSE NextFree(ex, counter + 1)

get_unique_output_path_clobber(ex) == 1

get_unique_output_path(ex) ==
    IF 1 \notin ex THEN 1 ELSE NextFree(ex, 2)

(***************************************************************************)
(* The pages the browser shows: option texts and result cards.             *)
(***************************************************************************)
OptOn == <<"O", "n">>
OptNon == <<"n", "o", "n">>
OptionTexts == {OptOn, OptNon}

RECURSIVE SeqsUpTo(_, _)
SeqsUpTo(S, n) ==
    IF n = 0 THEN {<<>>}
    ELSE LET shorter == SeqsUpTo(S, n - 1)
         IN shorter \cup {Append(s, x) : s \in {t \in shorter : Len(t) = n - 1}, x \in S}

OptionLists == SeqsUpTo(OptionTexts, MaxOpts)

\* A card as the selectors of lines 335-360 see it; NoEl where no element matches.
CardA == [a |-> <<"c", " ", "d">>, href |-> <<"/", "a">>, company |-> <<"A", "b">>,
          location |-> <<"E">>, salary |-> <<"$">>]
CardB == [a |-> <<"C", "D">>, href |-> <<"/", "b">>, company |-> <<"a", " ", "b">>,
          location |-> <<"e">>, salary |-> NoEl]
CardC == [a |-> <<"x">>, href |-> NoEl, company |-> NoEl,
          location |-> <<"E">>, salary |-> NoEl]
CardN == [a |-> NoEl, href |-> NoEl, company |-> <<"A", "b">>,
          location |-> <<"E">>, salary |-> NoEl]
Cards == {CardA, CardB, CardC, CardN}

\* el.inner_text().strip() if el else "N/A"
TextOr(el) == IF el = NoEl THEN NA ELSE el

JOB_TITLE == <<"j">>
SITE == <<"s">>

(***************************************************************************)
(* Lines 122-127: normalize_filters_for_csv.                               *)
(***************************************************************************)
normalize_filters_for_csv_shifted(sel) ==
    [distance |-> Get(sel, "Distance", <<>>),
     job_type |-> Get(sel, "Minimum Salary", <<>>),
     date_added |-> Get(sel, "Date added", <<>>)]

normalize_filters_for_csv(sel) ==
    [distance |-> Get(sel, "Distance", <<>>),
     job_type |-> Get(sel, "Job Type", <<>>),
     date_added |-> Get(sel, "Date added", <<>>)]

(***************************************************************************)
(* Lines 335-379: the record built from one card.                          *)
(***************************************************************************)
\* line 362
Fingerprint(company, title, location) ==
    RemoveSpaces(Lower(company \o title \o location))

CardFingerprint(card) ==
    Fingerprint(TextOr(card.company), TextOr(card.a), TextOr(card.location))

\* lines 363-364
AlreadySeenNever(fp, seen) == FALSE

AlreadySeen(fp, seen) == fp \in seen

\* lines 339-379
MakeJob(card, sel, page) ==
    LET meta == normalize_filters_for_csv(sel)
    IN [search |-> JOB_TITLE,
        company |-> TextOr(card.company),
        title |-> TextOr(card.a),
        link |-> IF card.href = NoEl THEN NA ELSE SITE \o card.href,
        salary |-> TextOr(card.salary),
        location |-> TextOr(card.location),
        distance |-> meta.distance,
        job_type |-> meta.job_type,
        date_added |-> meta.date_added,
        page |-> page]

\* lines 362 and 385: the fingerprint added for the record just appended
JobFingerprintRaw(j) == j.company \o j.title \o j.location

JobFingerprint(j) == Fingerprint(j.company, j.title, j.location)

(***************************************************************************)
(* Lines 409-445: export_csv, the file it leaves.                          *)
(***************************************************************************)
NoFile == [exists |-> FALSE, header |-> FALSE, rows |-> <<>>]
Truncated == [exists |-> TRUE, header |-> FALSE, rows |-> <<>>]

\* lines 430-443: the row written for one record
Row(j) == [company |-> j.company, title |-> j.title, link |-> j.link,
           salary |-> j.salary, location |-> j.location, distance |-> j.distance,
           job_type |-> j.job_type, date_added |-> j.date_added, page |-> j.page]

Rows(js) == [i \in 1..Len(js) |-> Row(js[i])]

\* a complete run of export_csv(js)
Exported(js) == [exists |-> TRUE, header |-> TRUE, rows |-> Rows(js)]

(***************************************************************************)
(* Initial state: the interpreter is about to execute line 60.             *)
(***************************************************************************)
\* no call of select_filter_option is at its return
NoCall == [label |-> "", option |-> <<>>, listed |-> <<>>, failAt |-> "none",
           ret |-> FALSE, clicked |-> 0, open |-> FALSE, returned |-> FALSE]

\* nothing has run on the page yet: no network-idle wait, no terminal-state check
Unsettled == [idle |-> FALSE, c404 |-> FALSE, cnr |-> FALSE]

InitWith(dirs, pages) ==
    /\ pc = "resolve"
    /\ phase = "init"
    /\ existing \in dirs
    /\ OUTPUT_FILE = 0
    /\ MAX_PAGES \in pages
    /\ jobs = <<>>
    /\ fingerprints = {}
    /\ current_page = 1
    /\ cardsLeft = 0
    /\ selected_filters = EmptyDict
    /\ li = 0
    /\ options = <<>>
    /\ applied = EmptyDict
    /\ sfo = NoCall
    /\ sigCount = 0
    /\ pending = "none"
    /\ crawlOutcome = "running"
    /\ exitStatus = -1
    /\ file = NoFile
    /\ exportCalls = 0
    /\ writtenPaths = {}
    /\ terminalAt = "none"
    /\ crawledPages = <<>>
    /\ sigJobs = -1
    /\ success = "none"
    /\ lastCard = "none"
    /\ errorAt = "none"
    /\ pageSince = Unsettled

\* a run in a directory without earlier output files, for any --pages
Init == InitWith({{}}, 0..MaxPagesArg)

\* a run with --pages 1 in a directory with any earlier output files
InitPath == InitWith(SUBSET (1..MaxExisting), {1})


(***************************************************************************)
(* Control flow helpers.                                                   *)
(***************************************************************************)
exitVars == <<pending, crawlOutcome, exitStatus, errorAt>>
envVars == <<existing, MAX_PAGES>>
crawlData == <<jobs, fingerprints, current_page, cardsLeft, crawledPages, success, lastCard>>
filterVars == <<selected_filters, li, options, applied, sfo>>
sigVars == <<sigCount, sigJobs>>
fileVars == <<file, exportCalls, writtenPaths>>

\* the statement completes and the main thread goes on at p
Continue(p) == pc' = p /\ UNCHANGED exitVars

\* an exception leaves crawl(): the finally block of line 451 runs next
Raise(kind) ==
    /\ pc' = "fin_print"
    /\ pending' = kind
    /\ crawlOutcome' = "raised"
    /\ errorAt' = IF kind = "Error" THEN pc ELSE errorAt
    /\ UNCHANGED exitStatus

\* an except clause: the bare one of lines 84, 186, 271 catches everything, the
\* "except Exception" of lines 115, 182, 227, 250 does not catch SystemExit
CatchesNothing(clause, exc) == FALSE

Catches(clause, exc) == clause = "bare" \/ exc = "Error"

\* lines 276, 307, 318: the statement that follows the settle wait, or that
\* opens the loop body, is the call of check_404_page
FirstCheckSkipped(ph) == IF ph = "page" THEN "wait_cards" ELSE "chk404"

FirstCheck(ph) == "chk404"

\* least index after i of a label that is a key of sel, 0 if none
NextSelected(sel, i) ==
    LET later == {j \in (i + 1)..Len(FILTER_LABELS) : FILTER_LABELS[j] \in DOMAIN sel}
    IN IF later = {} THEN 0 ELSE CHOOSE j \in later : \A k \in later : j <= k

\* line 301: the next (label, option) of selected_filters.items(), or line 315
NextApply(sel, i) ==
    LET j == NextSelected(sel, i)
    IN /\ li' = j
       /\ Continue(IF j = 0 THEN "loop_test" ELSE "apply")

\* line 289: the next label of FILTER_LABELS, or the loop of line 301
\* (options is dead after the loop and is cleared there)
LabelDone(sel, opts) ==
    IF li < Len(FILTER_LABELS)
    THEN li' = li + 1 /\ options' = opts /\ Continue("discover")
    ELSE NextApply(sel, 0) /\ options' = <<>>

\* lines 292-294
SkipLabelNever(texts) == FALSE

SkipLabel(texts) == texts = <<>>

\* lines 290-296: what crawl() does with the result of get_dropdown_options
AfterDiscover(texts) ==
    IF SkipLabel(texts)
    THEN LabelDone(selected_filters, texts)
    ELSE /\ options' = texts
         /\ Continue("ask")
         /\ UNCHANGED li

(***************************************************************************)
(* Line 60: OUTPUT_FILE = get_unique_output_path(BASE_OUTPUT).             *)
(***************************************************************************)
ResolveOutput ==
    /\ pc = "resolve"
    /\ OUTPUT_FILE' = get_unique_output_path(existing)
    /\ Continue("goto")
    /\ UNCHANGED <<phase, envVars, crawlData, filterVars, sigVars, fileVars,
                   terminalAt, pageSince>>

(***************************************************************************)
(* crawl(), lines 256-405.                                                 *)
(***************************************************************************)
\* lines 261-264: launch the browser, page.goto(BASE_URL)
Goto ==
    /\ pc = "goto"
    /\ \E ok \in BOOLEAN : IF ok THEN Continue("consent") ELSE Raise("Error")
    /\ pageSince' = Unsettled
    /\ UNCHANGED <<phase, OUTPUT_FILE, envVars, crawlData, filterVars, sigVars, fileVars,
                   terminalAt>>

\* lines 266-272: the consent button, inside try / bare except
Consent ==
    /\ pc = "consent"
    /\ Continue("idle0")
    /\ UNCHANGED <<phase, OUTPUT_FILE, envVars, crawlData, filterVars, sigVars, fileVars,
                   terminalAt, pageSince>>

\* line 274
WaitIdleInitial ==
    /\ pc = "idle0"
    /\ \E ok \in BOOLEAN :
          IF ok
          THEN /\ Continue(FirstCheck("init"))
               /\ phase' = "init"
               /\ pageSince' = [pageSince EXCEPT !.idle = TRUE]
          ELSE Raise("Error") /\ UNCHANGED <<phase, pageSince>>
    /\ UNCHANGED <<OUTPUT_FILE, envVars, crawlData, filterVars, sigVars, fileVars, terminalAt>>

\* lines 276-278 (and 280-282, 307-313, 318-324): a positive check ends crawl()
EndsCrawlNever(found) == FALSE

EndsCrawl(found) == found

\* lines 76-83 and 86, called at 276, 307, 318; is_visible may raise
check_404_page ==
    /\ pc = "chk404"
    /\ \E visible \in {"True", "False", "raises"} :
          IF visible = "raises"
          THEN /\ IF Catches("bare", "Error")
                  THEN Continue("chk404_except")
                  ELSE Raise("Error")
               /\ UNCHANGED <<terminalAt, pageSince>>
          ELSE LET found == visible = "True"
               IN /\ terminalAt' = IF found THEN phase ELSE terminalAt
                  /\ pageSince' = [pageSince EXCEPT !.c404 = TRUE]
                  /\ IF EndsCrawl(found) THEN Continue("close") ELSE Continue("chknores")
    /\ UNCHANGED <<phase, OUTPUT_FILE, envVars, crawlData, filterVars, sigVars, fileVars>>

\* lines 84-86: except: pass, return False
check_404_page_except ==
    /\ pc = "chk404_except"
    /\ pageSince' = [pageSince EXCEPT !.c404 = TRUE]
    /\ Continue("chknores")
    /\ UNCHANGED <<phase, OUTPUT_FILE, envVars, crawlData, filterVars, sigVars, fileVars,
                   terminalAt>>

\* lines 284-289, 301 and 326: where crawl() goes on after both checks returned False
AfterChecks ==
    CASE phase = "init" ->
            li' = 1 /\ Continue("discover") /\ UNCHANGED options
      [] phase = "filter" ->
            NextApply(selected_filters, li) /\ UNCHANGED options
      [] OTHER ->
            Continue("wait_cards") /\ UNCHANGED <<li, options>>

\* lines 89-113 and 119, called at 280, 311, 322; count() and inner_text() may raise
check_no_results ==
    /\ pc = "chknores"
    /\ \E phrase \in {"True", "False", "raises"} :
          IF phrase = "raises"
          THEN /\ IF Catches("Exception", "Error")
                  THEN Continue("chknores_except")
                  ELSE Raise("Error")
               /\ UNCHANGED <<terminalAt, pageSince, li, options>>
          ELSE LET found == phrase = "True"
               IN /\ terminalAt' = IF found THEN phase ELSE terminalAt
                  /\ pageSince' = [pageSince EXCEPT !.cnr = TRUE]
                  /\ IF EndsCrawl(found)
                     THEN Continue("close") /\ UNCHANGED <<li, options>>
                     ELSE AfterChecks
    /\ UNCHANGED <<phase, OUTPUT_FILE, envVars, crawlData, selected_filters, applied, sfo,
                   sigVars, fileVars>>

\* lines 115-119: the warning is printed, return False
check_no_results_except ==
    /\ pc = "chknores_except"
    /\ pageSince' = [pageSince EXCEPT !.cnr = TRUE]
    /\ AfterChecks
    /\ UNCHANGED <<phase, OUTPUT_FILE, envVars, crawlData, selected_filters, applied, sfo,
                   sigVars, fileVars, terminalAt>>

\* browser.close() and the return of crawl(): lines 277-278, 281-282, 308-309,
\* 312-313, 319-320, 323-324, 402-405
CloseBrowser ==
    /\ pc = "close"
    /\ pc' = "fin_print"
    /\ crawlOutcome' = "returned"
    /\ UNCHANGED <<pending, exitStatus, errorAt, phase, OUTPUT_FILE, envVars,
                   crawlData, filterVars,
                   sigVars, fileVars, terminalAt, pageSince>>

\* lines 153-183: get_dropdown_options up to its return or its except clause
get_dropdown_options ==
    /\ pc = "discover"
    /\ \E ok \in BOOLEAN :
          IF ok
          THEN \E texts \in OptionLists : AfterDiscover(texts)
          ELSE /\ IF Catches("Exception", "Error")
                  THEN Continue("gdo_cleanup")
                  ELSE Raise("Error")
               /\ UNCHANGED <<li, options>>
    /\ UNCHANGED <<phase, OUTPUT_FILE, envVars, crawlData, selected_filters, applied, sfo,
                   sigVars, fileVars, terminalAt, pageSince>>

\* lines 184-188: the clean-up key press in try / bare except, return []
get_dropdown_options_except ==
    /\ pc = "gdo_cleanup"
    /\ \E esc \in BOOLEAN :
          IF esc \/ Catches("bare", "Error")
          THEN AfterDiscover(<<>>)
          ELSE Raise("Error") /\ UNCHANGED <<li, options>>
    /\ UNCHANGED <<phase, OUTPUT_FILE, envVars, crawlData, selected_filters, applied, sfo,
                   sigVars, fileVars, terminalAt, pageSince>>

\* lines 130-139: ask_filter_choice_dynamic up to the y/n answer
ask_filter_choice_dynamic ==
    /\ pc = "ask"
    /\ IF options = <<>>
       THEN LabelDone(selected_filters, options)
       ELSE \E use \in {"y", "n"} :
               IF use = "y" /\ Cardinality(DOMAIN selected_filters) < MaxChosen
               THEN Continue("ask_choice") /\ UNCHANGED <<li, options>>
               ELSE LabelDone(selected_filters, options)
    /\ UNCHANGED <<phase, OUTPUT_FILE, envVars, crawlData, selected_filters, applied, sfo,
                   sigVars, fileVars, terminalAt, pageSince>>

\* lines 147-148: the option the decision step returns for the number k
Choice(opts, k) == opts[k]

\* lines 146-147: a line typed at the prompt, as str.isdigit() and int() see it.
\* int = -1: int() raises ValueError; str.isdigit() is true of digits that
\* int() does not accept, such as a superscript two.
Typed ==
    {[isdigit |-> TRUE, int |-> k] : k \in -1..(MaxOpts + 1)}
        \cup {[isdigit |-> FALSE, int |-> -1]}

\* lines 145-150 and 298-299: a line is read until it is a valid number
ask_filter_choice_number ==
    /\ pc = "ask_choice"
    /\ \E typed \in Typed :
          IF ~typed.isdigit
          THEN UNCHANGED <<pc, exitVars, selected_filters, li, options>>
          ELSE IF typed.int = -1
          THEN Raise("Error") /\ UNCHANGED <<selected_filters, li, options>>
          ELSE IF 1 <= typed.int /\ typed.int <= Len(options)
          THEN LET choice == Choice(options, typed.int)
                   sel == IF choice # <<>>
                          THEN Put(selected_filters, FILTER_LABELS[li], choice)
                          ELSE selected_filters
               IN selected_filters' = sel /\ LabelDone(sel, options)
          ELSE UNCHANGED <<pc, exitVars, selected_filters, li, options>>
    /\ UNCHANGED <<phase, OUTPUT_FILE, envVars, crawlData, applied, sfo, sigVars, fileVars,
                   terminalAt, pageSince>>

\* line 212: index of the first listed option that contains the text, 0 if none
FirstMatch(text, listed) ==
    LET hits == {i \in 1..Len(listed) : Contains(Lower(text), Lower(listed[i]))}
    IN IF hits = {} THEN 0 ELSE CHOOSE i \in hits : \A j \in hits : i <= j

\* lines 191-230: select_filter_option(page, label, option), called at 302.
\* failAt: "open" a call of 193-208 raised, "act" the call after the scan raised
\* (the click of 213-214 or the key press of 223); esc: the key press of 229 works.
select_filter_option ==
    /\ pc = "apply"
    /\ LET label == FILTER_LABELS[li]
           option == selected_filters[label]
       IN \E listed \in OptionLists, failAt \in {"none", "open", "act"}, esc \in BOOLEAN :
             LET seen == IF failAt = "open" THEN <<>> ELSE listed
                 m == FirstMatch(option, seen)
                 raised == failAt # "none"
                 ret == ~raised /\ m # 0
                 frame == [label |-> label, option |-> option, listed |-> seen,
                           failAt |-> failAt,
                           ret |-> ret,
                           clicked |-> IF ret THEN m ELSE 0,
                           open |-> raised /\ ~esc,
                           returned |-> ~raised \/ esc]
             IN /\ sfo' = frame
                /\ IF raised /\ ~esc
                   THEN Raise("Error") /\ UNCHANGED applied
                   ELSE Continue("idle_f") /\ applied' = Put(applied, label, ret)
    /\ pageSince' = Unsettled
    /\ UNCHANGED <<phase, OUTPUT_FILE, envVars, crawlData, selected_filters, li, options,
                   sigVars, fileVars, terminalAt>>

\* lines 303-305
WaitIdleFilter ==
    /\ pc = "idle_f"
    /\ sfo' = NoCall
    /\ \E ok \in BOOLEAN :
          IF ok
          THEN /\ Continue(FirstCheck("filter"))
               /\ phase' = "filter"
               /\ pageSince' = [pageSince EXCEPT !.idle = TRUE]
          ELSE Raise("Error") /\ UNCHANGED <<phase, pageSince>>
    /\ UNCHANGED <<OUTPUT_FILE, envVars, crawlData, selected_filters, li, options, applied,
                   sigVars, fileVars, terminalAt>>

\* line 315: the loop condition
LoopCond(cp, mp) == cp <= mp

\* lines 315-316: the loop test and the start of the loop body
LoopTest ==
    /\ pc = "loop_test"
    /\ IF LoopCond(current_page, MAX_PAGES)
       THEN /\ Continue(FirstCheck("page"))
            /\ phase' = "page"
            /\ crawledPages' = Append(crawledPages, current_page)
       ELSE /\ Continue("close")
            /\ UNCHANGED <<phase, crawledPages>>
    /\ UNCHANGED <<OUTPUT_FILE, envVars, jobs, fingerprints, current_page, cardsLeft,
                   success, lastCard, filterVars, sigVars, fileVars, terminalAt, pageSince>>

\* lines 326-329: wait_for_selector, not inside any try
WaitCards ==
    /\ pc = "wait_cards"
    /\ \E ok \in BOOLEAN : IF ok THEN Continue("query") ELSE Raise("Error")
    /\ UNCHANGED <<phase, OUTPUT_FILE, envVars, crawlData, filterVars, sigVars, fileVars,
                   terminalAt, pageSince>>

\* lines 331-332
QueryCards ==
    /\ pc = "query"
    /\ \E n \in 1..MaxCards : cardsLeft' = n
    /\ lastCard' = "none"
    /\ Continue("card")
    /\ UNCHANGED <<phase, OUTPUT_FILE, envVars, jobs, fingerprints, current_page,
                   crawledPages, success, filterVars, sigVars, fileVars, terminalAt,
                   pageSince>>

\* line 334: the next card of the for loop, or line 388 after the last one
NextCardPc(n) == IF n = 0 THEN "advance" ELSE "card"

\* lines 335-381: one card, up to jobs.append(job)
Card ==
    /\ pc = "card"
    /\ \E card \in Cards :
          /\ cardsLeft' = cardsLeft - 1
          /\ IF card.a = NoEl
             THEN /\ Continue(NextCardPc(cardsLeft - 1))
                  /\ lastCard' = "no_title"
                  /\ UNCHANGED jobs
             ELSE IF AlreadySeen(CardFingerprint(card), fingerprints)
                  THEN /\ Continue(NextCardPc(cardsLeft - 1))
                       /\ lastCard' = "duplicate"
                       /\ UNCHANGED jobs
                  ELSE /\ jobs' = Append(jobs, MakeJob(card, selected_filters, current_page))
                       /\ lastCard' = "appended"
                       /\ Continue("card_added")
    /\ UNCHANGED <<phase, OUTPUT_FILE, envVars, fingerprints, current_page, crawledPages,
                   success, filterVars, sigVars, fileVars, terminalAt, pageSince>>

\* lines 382-386: fingerprints.add(fingerprint)
CardAdded ==
    /\ pc = "card_added"
    /\ fingerprints' = fingerprints \cup {JobFingerprint(jobs[Len(jobs)])}
    /\ Continue(NextCardPc(cardsLeft))
    /\ UNCHANGED <<phase, OUTPUT_FILE, envVars, jobs, current_page, cardsLeft, crawledPages,
                   success, lastCard, filterVars, sigVars, fileVars, terminalAt, pageSince>>

\* lines 389-390
LastPageNever(next, mp) == FALSE

LastPage(next, mp) == next > mp

\* lines 388-400: next_page, go_to_page (233-252), current_page += 1.
\* go_to_page returns True after the click of 246 and the wait of 247; it
\* returns False before the click, or after it when the wait raised.
Advance ==
    /\ pc = "advance"
    /\ LET next_page == current_page + 1
       IN IF LastPage(next_page, MAX_PAGES)
          THEN Continue("close") /\ UNCHANGED <<current_page, success, pageSince>>
          ELSE \E ok \in BOOLEAN, clicked \in BOOLEAN :
                  /\ success' = IF ok THEN "True" ELSE "False"
                  /\ IF ok
                     THEN /\ current_page' = current_page + 1
                          /\ pageSince' = [Unsettled EXCEPT !.idle = TRUE]
                          /\ Continue("loop_test")
                     ELSE /\ pageSince' = IF clicked THEN Unsettled ELSE pageSince
                          /\ Continue("close")
                          /\ UNCHANGED current_page
    /\ lastCard' = "none"
    /\ UNCHANGED <<phase, OUTPUT_FILE, envVars, jobs, fingerprints, cardsLeft, crawledPages,
                   filterVars, sigVars, fileVars, terminalAt>>

(***************************************************************************)
(* Lines 449-453: the finally block, export_csv(jobs) step by step.        *)
(***************************************************************************)
\* crawl() has ended: its locals, and what was recorded about them, are gone
FrameDropped ==
    /\ phase' = "init"
    /\ fingerprints' = {}
    /\ current_page' = 1
    /\ cardsLeft' = 0
    /\ crawledPages' = <<>>
    /\ success' = "none"
    /\ lastCard' = "none"
    /\ selected_filters' = EmptyDict
    /\ li' = 0
    /\ options' = <<>>
    /\ applied' = EmptyDict
    /\ sfo' = NoCall
    /\ pageSince' = Unsettled

FrameKept ==
    UNCHANGED <<phase, fingerprints, current_page, cardsLeft, crawledPages, success,
                lastCard, selected_filters, applied, sfo>>

\* line 452 and the call of line 453 (lines 410-412)
FinallyPrint ==
    /\ pc = "fin_print"
    /\ pc' = "exp_open"
    /\ exportCalls' = exportCalls + 1
    /\ FrameDropped
    /\ UNCHANGED <<exitVars, OUTPUT_FILE, envVars, jobs, sigVars, file, writtenPaths,
                   terminalAt>>

\* line 414: open(OUTPUT_FILE, "w")
ExportOpen ==
    /\ pc = "exp_open"
    /\ file' = Truncated
    /\ writtenPaths' = writtenPaths \cup {OUTPUT_FILE}
    /\ pc' = "exp_header"
    /\ UNCHANGED <<exitVars, phase, OUTPUT_FILE, envVars, crawlData, filterVars, sigVars,
                   exportCalls, terminalAt, pageSince>>

\* lines 415-428
ExportHeader ==
    /\ pc = "exp_header"
    /\ file' = [file EXCEPT !.header = TRUE]
    /\ pc' = "exp_rows"
    /\ UNCHANGED <<exitVars, phase, OUTPUT_FILE, envVars, crawlData, filterVars, sigVars,
                   exportCalls, writtenPaths, terminalAt, pageSince>>

\* lines 430-443
ExportRows ==
    /\ pc = "exp_rows"
    /\ file' = [file EXCEPT !.rows = Rows(jobs)]
    /\ pc' = "exp_close"
    /\ UNCHANGED <<exitVars, phase, OUTPUT_FILE, envVars, crawlData, filterVars, sigVars,
                   exportCalls, writtenPaths, terminalAt, pageSince>>

\* line 445, the end of the finally block and of the process
ExportClose ==
    /\ pc = "exp_close"
    /\ pc' = "exited"
    /\ exitStatus' = IF pending = "Error" THEN 1 ELSE 0
    /\ UNCHANGED <<pending, crawlOutcome, errorAt, phase, OUTPUT_FILE, envVars, crawlData,
                   filterVars, sigVars, fileVars, terminalAt, pageSince>>

(***************************************************************************)
(* Lines 63-69: handle_exit, run by the main thread when SIGINT arrives.   *)
(* The handler runs to its sys.exit(0) in one step; SystemExit is then     *)
(* raised at the statement the main thread was executing.  Inside a try    *)
(* with a bare except (lines 266-272, 77-85, 184-187) it is caught there.  *)
(***************************************************************************)
FinallyPcs == {"fin_print", "exp_open", "exp_header", "exp_rows", "exp_close"}

\* lines 65-66
HandlerExports(js) == js # <<>>

handle_exit ==
    /\ pc \notin {"resolve", "exited"}
    /\ sigCount < MaxSignals
    /\ sigCount' = sigCount + 1
    /\ sigJobs' = IF sigJobs = -1 /\ pc \notin FinallyPcs THEN Len(jobs) ELSE sigJobs
    /\ IF HandlerExports(jobs)
       THEN /\ exportCalls' = exportCalls + 1
            /\ file' = Exported(jobs)
            /\ writtenPaths' = writtenPaths \cup {OUTPUT_FILE}
       ELSE UNCHANGED fileVars
    /\ CASE pc = "consent" ->
              Continue("idle0") /\ FrameKept /\ UNCHANGED <<li, options, pageSince>>
         [] pc = "chk404" ->
              /\ Continue("chknores")
              /\ pageSince' = [pageSince EXCEPT !.c404 = TRUE]
              /\ FrameKept
              /\ UNCHANGED <<li, options>>
         [] pc = "gdo_cleanup" ->
              AfterDiscover(<<>>) /\ FrameKept /\ UNCHANGED pageSince
         [] pc \in FinallyPcs ->
              /\ pc' = "exited"
              /\ pending' = "SystemExit"
              /\ exitStatus' = 0
              /\ FrameDropped
              /\ UNCHANGED <<crawlOutcome, errorAt>>
         [] OTHER ->
              Raise("SystemExit") /\ FrameKept /\ UNCHANGED <<li, options, pageSince>>
    /\ UNCHANGED <<OUTPUT_FILE, envVars, jobs, terminalAt>>

Next ==
    \/ ResolveOutput
    \/ Goto
    \/ Consent
    \/ WaitIdleInitial
    \/ check_404_page
    \/ check_404_page_except
    \/ check_no_results
    \/ check_no_results_except
    \/ CloseBrowser
    \/ get_dropdown_options
    \/ get_dropdown_options_except
    \/ ask_filter_choice_dynamic
    \/ ask_filter_choice_number
    \/ select_filter_option
    \/ WaitIdleFilter
    \/ LoopTest
    \/ WaitCards
    \/ QueryCards
    \/ Card
    \/ CardAdded
    \/ Advance
    \/ FinallyPrint
    \/ ExportOpen
    \/ ExportHeader
    \/ ExportRows
    \/ ExportClose
    \/ handle_exit

Spec == Init /\ [][Next]_vars

SpecPath == InitPath /\ [][Next]_vars

(***************************************************************************)
(* Properties.                                                             *)
(***************************************************************************)
Exited == pc = "exited"

\* the main thread is inside crawl(), past line 259
InCrawl == pc \notin ({"resolve", "exited"} \cup FinallyPcs)

Max(a, b) == IF a >= b THEN a ELSE b

\* the key of the spec: lowercased, space-stripped company + title + location
NormKey(j) == RemoveSpaces(Lower(j.company \o j.title \o j.location))

\* the listed options that contain the text, case-insensitively
Matching(text, listed) ==
    {i \in 1..Len(listed) : Contains(Lower(text), Lower(listed[i]))}

\* C1: on every exit path export_csv is executed exactly once.
C1_ExportExactlyOnce == Exited => exportCalls = 1

\* C2: after a SIGINT delivered while crawl() runs, crawl() is over (no further
\* page is visited), no record is appended any more, and the process ends with
\* status 0 and a file holding exactly the records accumulated at the signal.
C2_InterruptEndsCrawl ==
    sigJobs >= 0 =>
        /\ ~InCrawl
        /\ Len(jobs) = sigJobs
        /\ Exited => exitStatus = 0 /\ file = Exported(jobs) /\ Len(file.rows) = sigJobs

\* C3: the process never exits without export_csv having run, and the file it
\* leaves holds the header and one data row per record of jobs at exit (header
\* only when jobs is empty).
C3_ExportBeforeExit ==
    Exited => exportCalls >= 1 /\ file = Exported(jobs)

C4_NoDuplicateKey ==
    \A i, k \in 1..Len(jobs) : i # k => NormKey(jobs[i]) # NormKey(jobs[k])

C4_FirstRetained ==
    /\ Len(jobs') >= Len(jobs)
    /\ \A i \in 1..Len(jobs) : jobs'[i] = jobs[i]
    /\ (pc = "card" /\ lastCard' = "duplicate") => jobs' = jobs

\* C4: no two records of jobs have the same fingerprint; a card whose fingerprint
\* was seen adds nothing and a record once appended is never changed or removed,
\* so the first encounter is the one retained, with its page number.
C4_Dedup == []C4_NoDuplicateKey /\ [][C4_FirstRetained]_vars

\* C4: page 2 showed a card whose key a record of page 1 has: one row, page 1
C4_Witness ==
    /\ lastCard = "duplicate"
    /\ current_page = 2
    /\ Len(jobs) = 1
    /\ jobs[1].page = 1

\* C5 as stated: inside crawl() current_page never exceeds MAX_PAGES and the
\* loop body has run at most MAX_PAGES times.
C5_Original ==
    InCrawl => current_page <= MAX_PAGES /\ Len(crawledPages) <= MAX_PAGES

C5_Bounded ==
    /\ current_page >= 1
    /\ current_page <= Max(MAX_PAGES, 1)
    /\ Len(crawledPages) <= Max(MAX_PAGES, 0)
    /\ \A i \in 1..Len(crawledPages) : crawledPages[i] = i /\ i <= MAX_PAGES
    /\ Len(crawledPages) <= current_page

C5_Step ==
    /\ (InCrawl /\ current_page' # current_page) =>
          /\ current_page' = current_page + 1
          /\ pc = "advance" /\ pc' = "loop_test"
          /\ success' = "True"
    /\ (pc = "advance" /\ success' = "False" /\ sigCount' = sigCount
           /\ current_page + 1 <= MAX_PAGES) =>
          /\ current_page' = current_page
          /\ pc' = "close"
          /\ crawlOutcome' = "running"

\* C5 amended: current_page starts at 1 and never exceeds max(MAX_PAGES, 1); the
\* pages crawled are 1, 2, ... in order, each at most MAX_PAGES, so none twice and
\* at most max(MAX_PAGES, 0) loop bodies; current_page changes only by +1 and only
\* when go_to_page(current_page + 1) returned True; a failed go_to_page ends the
\* loop with current_page unchanged and crawl() not raising.
C5_Pagination == []C5_Bounded /\ [][C5_Step]_vars

\* C5: two pages crawled after one successful go_to_page, the loop ended at the bound
C5_Witness ==
    /\ crawledPages = <<1, 2>>
    /\ current_page = 2
    /\ success = "True"
    /\ pc = "close"

C6_AfterTerminal ==
    terminalAt # "none" =>
        /\ ~InCrawl \/ pc = "close"
        /\ (~InCrawl /\ pending # "SystemExit") =>
              crawlOutcome = "returned" /\ pending = "none"
        /\ (Exited /\ pending # "SystemExit") =>
              /\ exitStatus = 0
              /\ file = Exported(jobs)
              /\ terminalAt = "init" => file.header /\ file.rows = <<>>

C6_Frozen ==
    terminalAt # "none" =>
        /\ jobs' = jobs
        /\ InCrawl =>
              /\ applied' = applied
              /\ selected_filters' = selected_filters
              /\ current_page' = current_page
              /\ crawledPages' = crawledPages

\* C6: once a terminal-state check has returned True, crawl() only closes the
\* browser and returns: no record is appended, no filter is applied, no page is
\* visited; on the run that no SIGINT cuts short, crawl() returns without raising
\* and the accumulator as it stands is exported; when the first page load is
\* terminal the file has the header and no data row.
C6_TerminalEndsCrawl == []C6_AfterTerminal /\ [][C6_Frozen]_vars

\* C6: the first page load was terminal and the run ended with a header-only file
C6_Witness ==
    /\ terminalAt = "init"
    /\ Exited
    /\ pending = "none"
    /\ file = Exported(<<>>)

C7_AskHasOptions == pc \in {"ask", "ask_choice"} => options # <<>>

C7_EmptySkipped ==
    /\ (InCrawl /\ selected_filters' # selected_filters) =>
          /\ pc = "ask_choice"
          /\ options # <<>>
          /\ DOMAIN selected_filters' = DOMAIN selected_filters \cup {FILTER_LABELS[li]}
    /\ (pc \in {"discover", "gdo_cleanup"} /\ options' = <<>>
           /\ pc' \notin {"gdo_cleanup", "fin_print"}) =>
          /\ selected_filters' = selected_filters
          /\ \/ li < Len(FILTER_LABELS) /\ li' = li + 1 /\ pc' = "discover"
             \/ li = Len(FILTER_LABELS) /\ pc' \in {"apply", "loop_test"}

\* C7: ask_filter_choice_dynamic is never invoked with an empty option list; a
\* label whose discovery returned nothing gets no selection and the loop goes on
\* with the next label.
C7_NoDecisionOnEmpty == []C7_AskHasOptions /\ [][C7_EmptySkipped]_vars

\* C7: the first label was discovered empty and skipped; the second is up next
C7_Witness ==
    /\ pc = "discover"
    /\ li = 2
    /\ options = <<>>
    /\ selected_filters = EmptyDict

C8_Frame ==
    (sfo.label # "" /\ sfo.failAt # "open") =>
        IF Matching(sfo.option, sfo.listed) = {}
        THEN sfo.returned /\ ~sfo.ret /\ sfo.clicked = 0 /\ ~sfo.open
        ELSE sfo.failAt = "none" =>
                /\ sfo.returned /\ sfo.ret
                /\ sfo.clicked \in Matching(sfo.option, sfo.listed)
                /\ \A i \in Matching(sfo.option, sfo.listed) : sfo.clicked <= i

C8_MapKept == pc = "apply" => selected_filters' = selected_filters

\* C8: when the scan of select_filter_option finds no listed option containing the
\* text, the call returns False with nothing clicked and the dropdown closed; when
\* an option matches and is clicked, it is the first match in display order and
\* the call returns True; the call leaves selected_filters as it was.
C8_ApplyContract == []C8_Frame /\ [][C8_MapKept]_vars

\* C9: every record carries, in distance, job_type and date_added, the option
\* selected for Distance, Job Type and Date added (empty when unset); so an applied
\* selection tags every record appended afterwards, touches no other field, and a
\* Minimum Salary selection tags nothing.
C9_FilterTags ==
    InCrawl =>
        \A i \in 1..Len(jobs) :
            /\ jobs[i].distance = Get(selected_filters, "Distance", <<>>)
            /\ jobs[i].job_type = Get(selected_filters, "Job Type", <<>>)
            /\ jobs[i].date_added = Get(selected_filters, "Date added", <<>>)

\* C9: Job Type applied and Minimum Salary selected; a record has only job_type set
C9_Witness ==
    /\ Len(jobs) >= 1
    /\ Get(applied, "Job Type", FALSE) = TRUE
    /\ "Minimum Salary" \in DOMAIN selected_filters
    /\ selected_filters["Minimum Salary"] # selected_filters["Job Type"]
    /\ jobs[1].job_type = selected_filters["Job Type"]
    /\ jobs[1].distance = <<>>
    /\ jobs[1].date_added = <<>>

\* C10: OUTPUT_FILE is the base path when that does not exist, else name_k.ext
\* for the least k >= 2 that does not exist; it did not exist before the run, and
\* every export of the run writes that path and no other.
C10_FreshPath ==
    pc # "resolve" =>
        /\ OUTPUT_FILE \notin existing
        /\ 1 \notin existing => OUTPUT_FILE = 1
        /\ 1 \in existing => OUTPUT_FILE >= 2 /\ \A k \in 2..(OUTPUT_FILE - 1) : k \in existing
        /\ writtenPaths \subseteq {OUTPUT_FILE}
        /\ writtenPaths \cap existing = {}

\* C10: x.csv and x_2.csv existed, the run wrote x_3.csv and ended
C10_Witness ==
    /\ existing = {1, 2}
    /\ OUTPUT_FILE = 3
    /\ writtenPaths = {3}
    /\ Exited

\* C11: when no result card attaches within the wait of lines 326-329, crawl()
\* ends without an exception leaving it, and the process exports the records
\* collected so far and terminates normally, with status 0.
C11_StructuralFailureNotFatal ==
    errorAt = "wait_cards" =>
        /\ crawlOutcome # "raised"
        /\ pending # "Error"
        /\ Exited => exitStatus = 0 /\ file = Exported(jobs)

\* the value a record may carry for a label: the option with which
\* select_filter_option returned True, else the empty text
ActiveValue(label) ==
    IF Get(applied, label, FALSE) THEN selected_filters[label] ELSE <<>>

\* C12: a record carries a non-empty distance, job_type or date_added value only
\* if select_filter_option returned True for that label with that option; a label
\* whose apply returned False contributes the empty value to every record.
C12_TagsOnlyApplied ==
    InCrawl =>
        \A i \in 1..Len(jobs) :
            /\ jobs[i].distance = ActiveValue("Distance")
            /\ jobs[i].job_type = ActiveValue("Job Type")
            /\ jobs[i].date_added = ActiveValue("Date added")

\* C13: the options of a label are read from the page only after the option
\* chosen for every earlier label has been applied and the page has settled.
C13_DiscoverAfterEarlierApplied ==
    pc = "discover" =>
        \A k \in 1..(li - 1) :
            FILTER_LABELS[k] \in DOMAIN selected_filters =>
                FILTER_LABELS[k] \in DOMAIN applied

\* the next statement reads filter options or result cards from the page
ReadsData == pc \in {"discover", "apply", "wait_cards", "query", "card"}

C14_CheckedBeforeRead ==
    /\ ReadsData => pageSince.c404 /\ pageSince.cnr
    /\ pageSince.cnr => pageSince.c404

C14_CheckOrder ==
    /\ (pc \in {"idle0", "idle_f"} /\ pc' # "fin_print") => pc' = "chk404"
    /\ (pc = "loop_test" /\ pc' \notin {"close", "fin_print"}) => pc' = "chk404"
    /\ (pc' = "chknores" /\ pc # "chknores") => pc \in {"chk404", "chk404_except"}
    /\ (pc' = "wait_cards" /\ pc # "wait_cards") =>
          pc \in {"chknores", "chknores_except"} /\ phase = "page"

\* C14: check_404_page and then check_no_results run after the initial
\* navigation, after every call of select_filter_option and at the start of every
\* pagination iteration; no filter option and no result card is read from a page
\* that a navigation, a filter application or a pagination click produced before
\* both checks have run on it.
C14_ChecksBeforeData == []C14_CheckedBeforeRead /\ [][C14_CheckOrder]_vars

\* C14: a filter was applied and go_to_page(2) succeeded; the cards of page 2 are
\* read after both checks ran on it
C14_Witness ==
    /\ pc = "query"
    /\ current_page = 2
    /\ DOMAIN applied # {}
    /\ pageSince.c404
    /\ pageSince.cnr

\* C15: no failure inside select_filter_option leaves the call: whatever raised
\* in it, the call returns False, and crawl() is not ended by an error raised
\* at line 302.
C15_ApplyNeverRaises ==
    /\ errorAt # "apply"
    /\ (sfo.label # "" /\ sfo.failAt # "none") => sfo.returned /\ ~sfo.ret

ProbePcs == {"chk404", "chk404_except", "chknores", "chknores_except", "discover",
             "gdo_cleanup"}

C16_NothingRaised == errorAt \notin ProbePcs

C16_FalseOrEmpty ==
    /\ (pc \in ProbePcs /\ sigCount' = sigCount) => pc' # "fin_print"
    /\ (pc = "chk404_except" /\ sigCount' = sigCount) =>
          pc' = "chknores" /\ terminalAt' = terminalAt
    /\ (pc = "chknores_except" /\ sigCount' = sigCount) =>
          /\ terminalAt' = terminalAt
          /\ pc' = CASE phase = "init" -> "discover"
                    [] phase = "page" -> "wait_cards"
                    [] OTHER -> IF li' = 0 THEN "loop_test" ELSE "apply"
    /\ pc = "gdo_cleanup" =>
          /\ options' = <<>>
          /\ selected_filters' = selected_filters
          /\ pc' = IF li < Len(FILTER_LABELS) THEN "discover"
                   ELSE IF li' = 0 THEN "loop_test" ELSE "apply"

\* C16: an automation error inside check_404_page, check_no_results or
\* get_dropdown_options never reaches crawl(): the two checks return False, so the
\* crawl is not ended and goes on with the statement after the check, and
\* get_dropdown_options returns the empty sequence, so the label is skipped.
C16_ProbesBestEffort == []C16_NothingRaised /\ [][C16_FalseOrEmpty]_vars

\* C16: on the second page, with a record collected, check_no_results raised
\* inside and is in its except clause
C16_Witness ==
    /\ pc = "chknores_except"
    /\ phase = "page"
    /\ current_page = 2
    /\ Len(jobs) >= 1

C17_MapValid ==
    \A label \in DOMAIN selected_filters :
        /\ \E k \in 1..Len(FILTER_LABELS) : FILTER_LABELS[k] = label
        /\ selected_filters[label] \in OptionTexts

C17_Taken ==
    \E k \in 1..Len(options) :
        selected_filters' = Put(selected_filters, FILTER_LABELS[li], options[k])

C17_DecisionStep ==
    /\ (InCrawl /\ selected_filters' # selected_filters) => pc = "ask_choice" /\ C17_Taken
    /\ (pc \in {"ask", "ask_choice"} /\ pc' \in {"ask", "ask_choice"}) =>
          options' = options /\ li' = li
    /\ (pc = "ask_choice" /\ sigCount' = sigCount) =>
          \/ pc' = "ask_choice" /\ selected_filters' = selected_filters
          \/ pc' \in {"discover", "apply", "loop_test"} /\ C17_Taken

\* C17: selected_filters holds one option text per key, only labels of
\* FILTER_LABELS, and every stored option was taken by position from the options
\* that discovery returned for that label; the decision step either returns such
\* an option or asks again, whatever else is typed.
C17_SelectionValid == []C17_MapValid /\ [][C17_DecisionStep]_vars

\* the next statement reads content of the page: an element query, a
\* terminal-state check, an option read or a card extraction
ReadsPage ==
    pc \in {"consent", "chk404", "chknores", "discover", "apply", "wait_cards", "query",
            "card"}

\* C18: after page.goto, after every call of select_filter_option and after every
\* pagination click, no content of the page is read before a network-idle wait
\* has completed.
C18_SettledBeforeRead == ReadsPage => pageSince.idle

\* C19: every card the for loop visits is either skipped because its
\* fingerprint was already seen or gets exactly one record appended; a card
\* without a title element gets a record with the title "N/A".
C19_EveryCardAccounted ==
    /\ InCrawl => lastCard \in {"none", "duplicate", "appended"}
    /\ \A i \in 1..Len(jobs) :
          \A f \in {"company", "title", "link", "salary", "location"} : jobs[i][f] # NoEl

\* the crawl() frame is alive: crawl() runs, or the finally block has not
\* started after it ended
FrameAlive == InCrawl \/ pc = "fin_print"

\* the statement interrupted, if any, was not between lines 381 and 385
CardBoundary == InCrawl /\ pc # "card_added"

C20_InStep ==
    /\ CardBoundary =>
          /\ fingerprints = {NormKey(jobs[i]) : i \in 1..Len(jobs)}
          /\ Cardinality(fingerprints) = Len(jobs)
    /\ FrameAlive =>
          /\ fingerprints \subseteq {NormKey(jobs[i]) : i \in 1..Len(jobs)}
          /\ Cardinality(fingerprints) \in {Len(jobs) - 1, Len(jobs)}
          /\ Cardinality(fingerprints) = Len(jobs) - 1 =>
                fingerprints = {NormKey(jobs[i]) : i \in 1..(Len(jobs) - 1)}
    /\ \A i \in 1..Len(jobs) :
          /\ jobs[i].page \in 1..MAX_PAGES
          /\ \A k \in 1..(i - 1) : jobs[k].page <= jobs[i].page

C20_OnlyGrow ==
    /\ Len(jobs') \in {Len(jobs), Len(jobs) + 1}
    /\ SubSeq(jobs', 1, Len(jobs)) = jobs
    /\ (FrameAlive /\ FrameAlive') => fingerprints \subseteq fingerprints'
    /\ (pc = "card_added" /\ pc' = "fin_print") =>
          fingerprints' = fingerprints /\ jobs' = jobs

\* C20: jobs and fingerprints only grow while crawl() runs; at every card
\* boundary fingerprints is exactly the set of fingerprints of the records of
\* jobs and has as many elements as jobs has records; the page numbers of the
\* records never decrease along jobs and lie in 1..MAX_PAGES; when crawl() is cut
\* between the append and the insertion, jobs is exactly one record ahead.
C20_AccumulatorInStep == []C20_InStep /\ [][C20_OnlyGrow]_vars

\* C20: SIGINT arrived between the append of the second record, found on page 2,
\* and the insertion of its fingerprint
C20_Witness ==
    /\ pc = "fin_print"
    /\ pending = "SystemExit"
    /\ Len(jobs) = 2
    /\ Cardinality(fingerprints) = 1
    /\ jobs[1].page = 1
    /\ jobs[2].page = 2
====
